---- MODULE Spec2Model ----
(***************************************************************************)
(* A model of parsey's Earley pipeline (lib/parser.js): earley() with its  *)
(* predict / scan / complete steps, removeUnfinishedItems(), swap(), dfs() *)
(* and dfsHelper(), run on Rule arrays (lib/rules.js) and token arrays;     *)
(* and of the construction of grammars: Rule and evaluate (lib/rules.js),  *)
(* CFG.prototype.rule and getSymbols (lib/cfg.js); and of the default      *)
(* tokenizer (lib/tokenizer.js).                                           *)
(*                                                                         *)
(* JavaScript indices are kept 0-based for chart states, dot positions and *)
(* origins; TLA+ sequences are 1-based, so tokens[i] is tokens[i + 1] here *)
(* and rule[d] is rhs[d + 1].                                              *)
(***************************************************************************)
EXTENDS Integers, Sequences, FiniteSets, TLC

(***************************************************************************)
(* Bounds of the model.                                                    *)
(***************************************************************************)
MaxLen == 3
MaxItems == 40
MaxRuns == 2

(***************************************************************************)
(* Strings are sequences of one-character strings, so that a RegExp can    *)
(* search inside a token.                                                  *)
(***************************************************************************)
Digits == {"1", "2"}
Letters == {"a", "c", "x", "u", "n", "d", "e", "f", "i"}
PlusSign == {"+"}

\* String(undefined), what RegExp.prototype.test makes of a missing token
UndefinedText == <<"u", "n", "d", "e", "f", "i", "n", "e", "d">>

(***************************************************************************)
(* Elements of a right-hand side: a Sym (compared by identity), a string,  *)
(* or a RegExp object (an index into RegExps; each object has its own      *)
(* lastIndex).  NoElem is rule[d] for d outside the array: undefined.      *)
(***************************************************************************)
Sym(s) == [kind |-> "Sym", sym |-> s, str |-> <<>>, re |-> 0]
Str(t) == [kind |-> "string", sym |-> "", str |-> t, re |-> 0]
Re(k) == [kind |-> "RegExp", sym |-> "", str |-> <<>>, re |-> k]
NoElem == [kind |-> "undefined", sym |-> "", str |-> <<>>, re |-> 0]

\* The RegExp objects the grammars use: a character class, once or
\* repeated (+), with or without the g flag.
\* group is the class of an optional capturing group in front, {} for none.
RegExps ==
  << [cls |-> Digits, plus |-> TRUE, global |-> FALSE, group |-> {}],     \* /\d+/
     [cls |-> PlusSign, plus |-> FALSE, global |-> FALSE, group |-> {}],  \* /\+/
     [cls |-> Letters, plus |-> TRUE, global |-> FALSE, group |-> {}],    \* /[a-z]+/
     [cls |-> Letters, plus |-> TRUE, global |-> FALSE, group |-> {}],    \* /[a-z]+/
     [cls |-> Digits, plus |-> TRUE, global |-> TRUE, group |-> {}],      \* /\d+/g
     [cls |-> Digits, plus |-> TRUE, global |-> FALSE, group |-> {"-"}] >> \* /(-)?\d+/

Rule(lhs, rhs) == [lhs |-> lhs, rhs |-> rhs]

\* rule[d] of JavaScript
ElemAt(rule, d) == IF d + 1 \in 1..Len(rule.rhs) THEN rule.rhs[d + 1] ELSE NoElem

\* tokens[i] of JavaScript: a string, or undefined outside the array
TokenAt(toks, i) ==
  IF i + 1 \in 1..Len(toks) THEN [undef |-> FALSE, str |-> toks[i + 1]]
  ELSE [undef |-> TRUE, str |-> <<>>]

ToText(v) == IF v.undef THEN UndefinedText ELSE v.str

Min(S) == CHOOSE x \in S : \A y \in S : x <= y
Max(S) == CHOOSE x \in S : \A y \in S : x >= y

(***************************************************************************)
(* RegExp.prototype.test: searches the text for the pattern, from          *)
(* lastIndex when the g flag is set and from 0 otherwise.  A g-flagged     *)
(* RegExp stores the end of the match in lastIndex, and 0 when it fails.   *)
(***************************************************************************)
RunEnd(s, k, cls) ==
  Max({m \in k..Len(s) : \A q \in k..m : s[q] \in cls})

RegTest(k, li, v) ==
  LET re == RegExps[k]
      s == ToText(v)
      from == IF re.global THEN li[k] ELSE 0
      hits == {p \in (from + 1)..Len(s) : s[p] \in re.cls}
  IN IF hits = {}
       THEN [ok |-> FALSE, li |-> IF re.global THEN [li EXCEPT ![k] = 0] ELSE li]
       ELSE [ok |-> TRUE,
             li |-> IF re.global
                      THEN [li EXCEPT ![k] = IF re.plus THEN RunEnd(s, Min(hits), re.cls)
                                             ELSE Min(hits)]
                      ELSE li]

(***************************************************************************)
(* Grammars: arrays of Rules.  A rule is named by its index in the array   *)
(* (Rule objects are compared by identity); its lhs is a Sym.              *)
(***************************************************************************)
T1 == <<"1">>
T12 == <<"1", "2">>
T1x == <<"1", "x">>
TPlus == <<"+">>
TStar == <<"*">>
TOpen == <<"(">>
TClose == <<")">>
Ta == <<"a">>
Tc == <<"c">>

\* the grammar of the parser's tests and of the README
Arith ==
  << Rule("sum", <<Sym("sum"), Str(TPlus), Sym("prod")>>),
     Rule("sum", <<Sym("prod")>>),
     Rule("prod", <<Sym("prod"), Str(TStar), Sym("factor")>>),
     Rule("prod", <<Sym("factor")>>),
     Rule("factor", <<Str(TOpen), Sym("sum"), Str(TClose)>>),
     Rule("factor", <<Re(1)>>) >>

\* 'allows multiple of same rule in same earley state', with /\+/
LeftRec ==
  << Rule("factor", <<Sym("factor"), Sym("factor")>>),
     Rule("factor", <<Sym("factor"), Re(2)>>),
     Rule("factor", <<Re(1)>>) >>

\* unit productions that form a cycle
UnitCycle ==
  << Rule("S", <<Sym("A"), Str(Tc)>>),
     Rule("A", <<Sym("B")>>),
     Rule("B", <<Sym("A")>>),
     Rule("A", <<Str(Ta)>>) >>

\* two rules of one lhs that span different numbers of tokens
Ambig ==
  << Rule("S", <<Sym("A"), Sym("A")>>),
     Rule("A", <<Str(Ta), Str(Ta)>>),
     Rule("A", <<Str(Ta)>>),
     Rule("A", <<Sym("B")>>),
     Rule("B", <<Str(Ta)>>) >>

\* patterns that match words
Words ==
  << Rule("S", <<Re(3), Sym("W")>>),
     Rule("W", <<Re(4)>>) >>

\* a pattern with the g flag (CFG.prototype.rule builds one for '/\d+/g'),
\* here one RegExp object that two rules use
Global ==
  << Rule("N", <<Re(5)>>),
     Rule("N", <<Re(5), Str(TPlus), Sym("N")>>) >>

GlobalOne == << Rule("N", <<Re(5)>>) >>

Inputs ==
  { [grammar |-> Arith, alphabet |-> {T1, TPlus, TStar, TOpen, TClose}],
    [grammar |-> LeftRec, alphabet |-> {T1, TPlus, T1x}],
    [grammar |-> UnitCycle, alphabet |-> {Ta, Tc}],
    [grammar |-> Ambig, alphabet |-> {Ta}],
    [grammar |-> Words, alphabet |-> {Ta, T1}],
    [grammar |-> Global, alphabet |-> {T1, T12, TPlus}],
    [grammar |-> GlobalOne, alphabet |-> {T1, T1x}] }

SeqsUpTo(S, n) == UNION {[1..m -> S] : m \in 0..n}

(***************************************************************************)
(* Building grammars (lib/rules.js, lib/cfg.js).  Here a Sym is an object  *)
(* with an identity (its place in the heap of Syms) and a name.  A name,   *)
(* and the text of a rule string, is a sequence of lexemes: the lexemes    *)
(* joined by single spaces.  No lexeme but "->" contains the arrow, so     *)
(* split('->') cuts the text at the "->" lexemes, trim() removes the       *)
(* spaces at the cut, and split(' ') gives back the lexemes.               *)
(***************************************************************************)
MaxWords == 3
MaxRhs == 2
MaxCalls == 2

Lexemes == {"A", "B", "toString", "->", "'a'", "/1/"}

\* the properties an object literal {} inherits from Object.prototype
ProtoNames == {<<"toString">>}

\* the names of the Syms the caller has created with new Sym(name): two
\* Syms of one name, and one of a name that {} inherits
UserSyms == <<<<"A">>, <<"A">>, <<"toString">>>>

SymObj(id, name) == [kind |-> "Sym", id |-> id, name |-> name]
StringObj(name) == [kind |-> "string", id |-> 0, name |-> name]
RegExpObj(name) == [kind |-> "RegExp", id |-> 0, name |-> name]
FunctionObj(name) == [kind |-> "function", id |-> 0, name |-> name]
UndefinedObj == [kind |-> "undefined", id |-> 0, name |-> <<>>]

\* JavaScript values passed as rhs or as values: undefined, null, a
\* number, a string, an object without length, or an array
Value(kind, l) == [kind |-> kind, l |-> l]

NoRule == [lhs |-> UndefinedObj, rhs |-> <<>>, valuator |-> FALSE]

\* faulty variant of RuleObject: the rhs pushed in reverse order
RuleObjectReversed(lhs, rhs, valuator) ==
  IF rhs.kind \in {"undefined", "null"} \/ Len(rhs.l) = 0
    THEN [st |-> "Error", rule |-> NoRule]
    ELSE [st |-> "ok",
          rule |-> [lhs |-> lhs,
                    rhs |-> [k \in 1..Len(rhs.l) |-> rhs.l[Len(rhs.l) + 1 - k]],
                    valuator |-> valuator]]

\* new Rule(lhs, rhs, valuator): what is thrown or returned
RuleObject(lhs, rhs, valuator) ==
  IF rhs.kind \in {"undefined", "null"} \/ Len(rhs.l) = 0
    THEN [st |-> "Error", rule |-> NoRule]
    ELSE [st |-> "ok", rule |-> [lhs |-> lhs, rhs |-> rhs.l, valuator |-> valuator]]

\* rule.evaluate(values): (valuator) ? valuator.apply(null, values) : null.
\* Function.prototype.apply takes undefined and null as no arguments, an
\* object as an array-like (one without length has none), and throws a
\* TypeError for any other value.  The valuator returns what it was given.
Evaluate(rule, values) ==
  IF ~rule.valuator THEN [st |-> "ok", val |-> Value("null", <<>>)]
  ELSE IF values.kind \in {"undefined", "null", "object"}
    THEN [st |-> "ok", val |-> Value("arguments", <<>>)]
  ELSE IF values.kind = "array"
    THEN [st |-> "ok", val |-> Value("arguments", values.l)]
  ELSE [st |-> "TypeError", val |-> Value("undefined", <<>>)]

\* syms[name] on the object syms = {}: an own property, or one inherited
Lookup(map, name) ==
  IF name \in DOMAIN map THEN map[name]
  ELSE IF name \in ProtoNames THEN FunctionObj(name)
  ELSE UndefinedObj

Assign(map, name, v) == [x \in DOMAIN map \cup {name} |-> IF x = name THEN v ELSE map[x]]

EmptyMap == [x \in {} |-> UndefinedObj]

\* the lhs and the rhs elements of every rule, in the order getSymbols
\* visits them
RECURSIVE Flatten(_, _)
Flatten(g, k) ==
  IF k > Len(g) THEN <<>> ELSE <<g[k].lhs>> \o g[k].rhs \o Flatten(g, k + 1)

RECURSIVE CollectSyms(_, _, _)
CollectSyms(elems, k, map) ==
  IF k > Len(elems) THEN [st |-> "ok", map |-> map]
  ELSE IF elems[k].kind # "Sym" THEN CollectSyms(elems, k + 1, map)
  ELSE IF Lookup(map, elems[k].name).kind \notin {"undefined", "null"}
          /\ Lookup(map, elems[k].name) # elems[k]
    THEN [st |-> "Error", map |-> EmptyMap]
  ELSE CollectSyms(elems, k + 1, Assign(map, elems[k].name, elems[k]))

\* CFG.prototype.getSymbols
GetSymbols(g) == CollectSyms(Flatten(g, 1), 1, EmptyMap)

\* the lexemes that REGEX_REGEX and STR_REGEX match
REGEX_REGEX(w) == w \in {"/1/"}
STR_REGEX(w) == w \in {"'a'"}

\* theRule.split('->').map((side) => side.trim())
RECURSIVE SplitArrow(_, _, _)
SplitArrow(text, k, side) ==
  IF k > Len(text) THEN <<side>>
  ELSE IF text[k] = "->" THEN <<side>> \o SplitArrow(text, k + 1, <<>>)
  ELSE SplitArrow(text, k + 1, Append(side, text[k]))

\* syms[name] || (syms[name] = new Sym(name)), on the heap of Syms
FindOrMake(map, heap, name) ==
  IF Lookup(map, name).kind # "undefined"
    THEN [v |-> Lookup(map, name), map |-> map, heap |-> heap]
    ELSE [v |-> SymObj(Len(heap) + 1, name),
          map |-> Assign(map, name, SymObj(Len(heap) + 1, name)),
          heap |-> Append(heap, name)]

\* rhs.split(' ').filter((s) => s !== '').map(...): the elements from
\* word k on; out holds the elements before k
RECURSIVE ResolveWords(_, _, _, _, _)
ResolveWords(words, k, map, heap, out) ==
  IF k > Len(words) THEN [rhs |-> out, heap |-> heap]
  ELSE IF REGEX_REGEX(words[k])
    THEN ResolveWords(words, k + 1, map, heap, Append(out, RegExpObj(<<"1">>)))
  ELSE IF STR_REGEX(words[k])
    THEN ResolveWords(words, k + 1, map, heap, Append(out, StringObj(<<"a">>)))
  ELSE LET f == FindOrMake(map, heap, <<words[k]>>)
       IN ResolveWords(words, k + 1, f.map, f.heap, Append(out, f.v))

\* the argument of cfg.rule(theRule): a string, a Rule or anything else
RuleArg(kind, text, rule) == [kind |-> kind, text |-> text, rule |-> rule]

\* CFG.prototype.rule on the grammar g: what is thrown or returned (ret),
\* the grammar and the heap of Syms after the call
RuleOutcome(st, g, heap, ret) == [st |-> st, g |-> g, heap |-> heap, ret |-> ret]

CfgRuleString(g, heap, text) ==
  LET sides == SplitArrow(text, 1, <<>>)
      syms == GetSymbols(g)
  IN IF Len(sides) < 2 THEN RuleOutcome("SyntaxError", g, heap, NoRule)
     ELSE IF syms.st # "ok" THEN RuleOutcome("Error", g, heap, NoRule)
     ELSE LET lhs == FindOrMake(syms.map, heap, sides[1])
              rhs == ResolveWords(sides[2], 1, lhs.map, lhs.heap, <<>>)
              built == RuleObject(lhs.v, Value("array", rhs.rhs), FALSE)
          IN IF built.st # "ok" THEN RuleOutcome("Error", g, rhs.heap, NoRule)
             ELSE RuleOutcome("ok", Append(g, built.rule), rhs.heap, built.rule)

CfgRule(g, heap, theRule) ==
  IF theRule.kind = "string" THEN CfgRuleString(g, heap, theRule.text)
  ELSE IF theRule.kind = "Rule"
    THEN RuleOutcome("ok", Append(g, theRule.rule), heap, theRule.rule)
  ELSE RuleOutcome("ok", g, heap, NoRule)

\* what the last call was given and what came of it
NoCall ==
  [op |-> "none", lhs |-> UndefinedObj, rhs |-> Value("undefined", <<>>),
   valuator |-> FALSE, arg |-> RuleArg("none", <<>>, NoRule),
   values |-> Value("undefined", <<>>), before |-> <<>>, heapBefore |-> 0,
   st |-> "none", rule |-> NoRule, map |-> EmptyMap,
   val |-> Value("undefined", <<>>)]

VARIABLES grammar, tokens, states, i, j, pc, lastIndex, chart, outcome, history,
          cfg, symHeap, last, ruleCalls

\* the variables of the grammar under construction: the CFG array, the
\* names of the Syms created so far (a Sym is its place in symHeap), the
\* Rule last constructed, the last call, and the kind of argument of every
\* call of cfg.rule that pushed a rule
cvars == <<cfg, symHeap, last, ruleCalls>>

\* the variables of a parse
pvars == <<grammar, tokens, states, i, j, pc, lastIndex, chart, outcome, history>>

vars == <<grammar, tokens, states, i, j, pc, lastIndex, chart, outcome, history,
          cfg, symHeap, last, ruleCalls>>

n == Len(tokens)

\* faulty variant of Item: the dot placed at the end of the rule
ItemAtEnd(r, d, o) ==
  [name |-> grammar[r].lhs, rule |-> r, position |-> Len(grammar[r].rhs), origin |-> o]

\* An Earley item: { name, rule, position, origin }
Item(r, d, o) == [name |-> grammar[r].lhs, rule |-> r, position |-> d, origin |-> o]

NextElem(item) == ElemAt(grammar[item.rule], item.position)

(***************************************************************************)
(* JavaScript values of the extractor: null, undefined or an array; a tree *)
(* child is a token (string) or a node { item, children }.                 *)
(***************************************************************************)
NullV == [k |-> "null", l |-> <<>>]
UndefinedV == [k |-> "undefined", l |-> <<>>]
ListV(l) == [k |-> "list", l |-> l]
Truthy(v) == v.k = "list"

NoToken == [undef |-> TRUE, str |-> <<>>]
Leaf(tok) == [item |-> 0, children |-> NullV, tok |-> tok]
Node(r, kids) == [item |-> r, children |-> kids, tok |-> NoToken]
IsLeaf(t) == t.item = 0

NoOutcome ==
  [kind |-> "none", tree |-> Leaf(NoToken), near |-> NoToken, log |-> <<>>,
   ambiguous |-> FALSE]

\* Array.apply(null, Array(k)).map(() => [])
EmptyStates(k) == [s \in 0..(k - 1) |-> <<>>]

Init ==
  /\ \E inp \in Inputs :
       /\ grammar = inp.grammar
       /\ tokens \in SeqsUpTo(inp.alphabet, MaxLen)
  /\ states = EmptyStates(0)
  /\ chart = EmptyStates(0)
  /\ i = 0
  /\ j = 0
  /\ pc = "call"
  /\ lastIndex = [k \in 1..Len(RegExps) |-> 0]
  /\ outcome = NoOutcome
  /\ history = <<>>
  /\ cfg = <<>>
  /\ symHeap = <<>>
  /\ last = NoCall
  /\ ruleCalls = <<>>

(***************************************************************************)
(* earley(): the chart is allocated and states[0] is seeded with one item  *)
(* per rule, in grammar order.                                             *)
(***************************************************************************)
RulePairs == [r \in 1..Len(grammar) |-> Item(r, 0, 0)]

Seed ==
  /\ pc = "call"
  /\ states' = [EmptyStates(n + 1) EXCEPT ![0] = RulePairs]
  /\ chart' = EmptyStates(0)
  /\ i' = 0
  /\ j' = 0
  /\ pc' = "loop"
  /\ outcome' = NoOutcome
  /\ UNCHANGED <<grammar, tokens, lastIndex, history, cvars>>

\* A state that outgrows MaxItems ends the run of the model.
After(st, next) == IF Len(st) > MaxItems THEN "toobig" ELSE next

(***************************************************************************)
(* The two for loops of earley(): the conditions i <= tokens.length and    *)
(* j < states[i].length, read again on every iteration.                    *)
(***************************************************************************)
\* faulty variant of Loop: the loop over j stops one item early
LoopLeavesLast ==
  /\ pc = "loop"
  /\ IF i > n
       THEN /\ pc' = "transform"
            /\ UNCHANGED <<i, j>>
       ELSE IF j + 1 < Len(states[i])
              THEN /\ pc' = "predict"
                   /\ UNCHANGED <<i, j>>
              ELSE /\ i' = i + 1
                   /\ j' = 0
                   /\ pc' = "loop"
  /\ UNCHANGED <<grammar, tokens, states, lastIndex, chart, outcome, history, cvars>>

Loop ==
  /\ pc = "loop"
  /\ IF i > n
       THEN /\ pc' = "transform"
            /\ UNCHANGED <<i, j>>
       ELSE IF j < Len(states[i])
              THEN /\ pc' = "predict"
                   /\ UNCHANGED <<i, j>>
              ELSE /\ i' = i + 1
                   /\ j' = 0
                   /\ pc' = "loop"
  /\ UNCHANGED <<grammar, tokens, states, lastIndex, chart, outcome, history, cvars>>

(***************************************************************************)
(* predict(): when a Sym follows the dot, every rule of the grammar is     *)
(* pushed as (rule, 0, i) unless stateHasItem.                             *)
(***************************************************************************)
\* faulty variant of StateHasRule: the duplicate check of predict() left out
StateHasRuleNever(st, curr, r) == FALSE

\* faulty variant of StateHasRule: the rule looked for whatever the dot of
\* the predicting item
StateHasRuleByIdentity(st, curr, r) == \E m \in 1..Len(st) : st[m].rule = r

StateHasRule(st, curr, r) ==
  \E m \in 1..Len(st) : st[m].rule = r /\ curr.position = 0

RECURSIVE PredictRules(_, _, _)
PredictRules(st, curr, r) ==
  IF r > Len(grammar) THEN st
  ELSE PredictRules(IF StateHasRule(st, curr, r) THEN st ELSE Append(st, Item(r, 0, i)),
                    curr, r + 1)

Predict ==
  /\ pc = "predict"
  /\ LET curr == states[i][j + 1]
         st == IF NextElem(curr).kind = "Sym"
                 THEN PredictRules(states[i], curr, 1)
                 ELSE states[i]
     IN /\ states' = [states EXCEPT ![i] = st]
        /\ pc' = After(st, "scan")
  /\ UNCHANGED <<grammar, tokens, i, j, lastIndex, chart, outcome, history, cvars>>

(***************************************************************************)
(* scan(): a RegExp is tested against tokens[i], a string is compared with *)
(* it; on a match the advanced copy of the item is pushed to states[i+1].  *)
(* states has tokens.length + 1 elements: states[i + 1] is undefined for   *)
(* i = tokens.length, and pushing to it throws a TypeError.                *)
(***************************************************************************)
ScanMatch(curr, li) ==
  LET e == NextElem(curr)
      tok == TokenAt(tokens, i)
  IN IF e.kind = "RegExp"
       THEN LET t == RegTest(e.re, li, tok)
            IN [hit |-> t.ok /\ i < n + 1, li |-> t.li]
       ELSE IF e.kind = "string"
              THEN [hit |-> (~tok.undef /\ e.str = tok.str) /\ i < n + 1, li |-> li]
              ELSE [hit |-> FALSE, li |-> li]

\* faulty variant of Advanced: the dot moved over two elements
AdvancedTwice(item) == [item EXCEPT !.position = item.position + 2]

Advanced(item) == [item EXCEPT !.position = item.position + 1]

Scan ==
  /\ pc = "scan"
  /\ LET curr == states[i][j + 1]
         m == ScanMatch(curr, lastIndex)
     IN /\ lastIndex' = m.li
        /\ IF ~m.hit
             THEN /\ pc' = "complete"
                  /\ UNCHANGED <<states, outcome>>
             ELSE IF i + 1 \in DOMAIN states
                    THEN LET st == Append(states[i + 1], Advanced(curr))
                         IN /\ states' = [states EXCEPT ![i + 1] = st]
                            /\ pc' = After(st, "complete")
                            /\ UNCHANGED outcome
                    ELSE /\ pc' = "done"
                         /\ outcome' = [NoOutcome EXCEPT !.kind = "TypeError"]
                         /\ UNCHANGED states
  /\ UNCHANGED <<grammar, tokens, i, j, chart, history, cvars>>

(***************************************************************************)
(* complete(): for a finished item, every item of states[curr.origin] that *)
(* waits for curr.rule.lhs is advanced into states[i], unless states[i]    *)
(* holds the same (rule, position, origin).  forEach visits the elements   *)
(* the array had when it was called.                                       *)
(***************************************************************************)
\* faulty variant of StateHasItem: items compared by their rule alone
StateHasItemByRule(st, it) == \E m \in 1..Len(st) : st[m].rule = it.rule

StateHasItem(st, it) ==
  \E m \in 1..Len(st) :
     /\ st[m].rule = it.rule
     /\ st[m].position = it.position
     /\ st[m].origin = it.origin

\* faulty variant of Waits: only an item with its dot at the start waits
WaitsAtStart(earleyItem, lhs) ==
  LET e == NextElem(earleyItem)
  IN e.kind = "Sym" /\ e.sym = lhs /\ earleyItem.position = 0

Waits(earleyItem, lhs) ==
  LET e == NextElem(earleyItem) IN e.kind = "Sym" /\ e.sym = lhs

RECURSIVE CompleteItems(_, _, _, _)
CompleteItems(st, from, lhs, k) ==
  IF k > Len(from) THEN st
  ELSE CompleteItems(
         IF Waits(from[k], lhs) /\ ~StateHasItem(st, Advanced(from[k]))
           THEN Append(st, Advanced(from[k]))
           ELSE st,
         from, lhs, k + 1)

Complete ==
  /\ pc = "complete"
  /\ LET curr == states[i][j + 1]
         st == IF curr.position >= Len(grammar[curr.rule].rhs)
                 THEN CompleteItems(states[i], states[curr.origin],
                                    grammar[curr.rule].lhs, 1)
                 ELSE states[i]
     IN /\ states' = [states EXCEPT ![i] = st]
        /\ pc' = After(st, "loop")
  /\ j' = j + 1
  /\ UNCHANGED <<grammar, tokens, i, lastIndex, chart, outcome, history, cvars>>

(***************************************************************************)
(* removeUnfinishedItems() and swap(): the finished items of states[i]     *)
(* with origin o go to newStates[o], in the order of i and then of         *)
(* states[i], and their origin field becomes i.                            *)
(***************************************************************************)
\* faulty variant of RemoveUnfinishedItems: nothing filtered out
RemoveNothing(sts) == sts

RemoveUnfinishedItems(sts) ==
  [s \in DOMAIN sts |->
     SelectSeq(sts[s], LAMBDA it : it.position >= Len(grammar[it.rule].rhs))]

\* faulty variant of SwapFrom: the states walked from the last to the first
RECURSIVE SwapFromLast(_, _, _)
SwapFromLast(sts, o, s) ==
  IF s \notin DOMAIN sts THEN <<>>
  ELSE LET mine == SelectSeq(sts[s], LAMBDA it : it.origin = o)
       IN SwapFromLast(sts, o, s + 1)
            \o [k \in 1..Len(mine) |-> [mine[k] EXCEPT !.origin = s]]

RECURSIVE SwapFrom(_, _, _)
SwapFrom(sts, o, s) ==
  IF s \notin DOMAIN sts THEN <<>>
  ELSE LET mine == SelectSeq(sts[s], LAMBDA it : it.origin = o)
       IN [k \in 1..Len(mine) |-> [mine[k] EXCEPT !.origin = s]]
            \o SwapFrom(sts, o, s + 1)

\* faulty variant of Swap: the items neither moved nor rewritten
SwapNothing(sts) == sts

Swap(sts) == [o \in DOMAIN sts |-> SwapFrom(sts, o, 0)]

Transform ==
  /\ pc = "transform"
  /\ chart' = Swap(RemoveUnfinishedItems(states))
  /\ pc' = "dfs"
  /\ UNCHANGED <<grammar, tokens, states, i, j, lastIndex, outcome, history, cvars>>

(***************************************************************************)
(* JSON.stringify of a tree, which dfsHelper compares to detect ambiguity: *)
(* a Rule is serialised as the array of its rhs, a RegExp as {}.           *)
(***************************************************************************)
JsonElem(e) == IF e.kind = "RegExp" THEN Re(0) ELSE e

RECURSIVE Json(_)
Json(v) ==
  IF v.k # "list" THEN <<v.k>>
  ELSE <<"list",
         [c \in 1..Len(v.l) |->
            IF IsLeaf(v.l[c]) THEN <<"token", v.l[c].tok>>
            ELSE <<"node",
                   [d \in 1..Len(grammar[v.l[c].item].rhs) |->
                      JsonElem(grammar[v.l[c].item].rhs[d])],
                   Json(v.l[c].children)>>]>>

(***************************************************************************)
(* dfsHelper(states, root, state, depth, tokens).  A call returns          *)
(* [st, v, li, log, amb]: st is "ok", or the exception that ends the call; *)
(* v the value returned; li the lastIndex of every RegExp after the call;  *)
(* log one record per evaluation of the non-terminal branch; amb whether   *)
(* 'Ambiguous rules' was written to the console.                           *)
(* calls holds the calls on the stack: the function reads only its         *)
(* arguments and lastIndex, so a call that is made again with the same     *)
(* arguments and the same lastIndex while it is on the stack recurses      *)
(* until the stack is exhausted (RangeError).                              *)
(***************************************************************************)
Ret(st, v, li, log, amb) == [st |-> st, v |-> v, li |-> li, log |-> log, amb |-> amb]

Candidates(sts, root, state, depth) ==
  LET e == ElemAt(grammar[root.rule], depth)
  IN SelectSeq(sts[state],
               LAMBDA item : e.kind = "Sym" /\ grammar[item.rule].lhs = e.sym)

Edges(outs) == SelectSeq(outs, Truthy)

\* faulty variant of PickEdge: the last successful candidate, not the first
PickLastEdge(edges) == IF Len(edges) = 0 THEN UndefinedV ELSE edges[Len(edges)]

\* what the non-terminal branch returns: edges[0]
PickEdge(edges) == IF Len(edges) = 0 THEN UndefinedV ELSE edges[1]

Differ(edges) == Len(edges) > 1 /\ \E k \in 1..Len(edges) : Json(edges[k]) # Json(edges[1])

RECURSIVE DfsHelper(_, _, _, _, _, _)
RECURSIVE MapCandidates(_, _, _, _, _, _, _, _, _)

DfsTerminal(sts, root, state, depth, li, calls, hit, li2) ==
  IF ~hit THEN Ret("ok", NullV, li2, <<>>, FALSE)
  ELSE LET subMatch == DfsHelper(sts, root, state + 1, depth + 1, li2, calls)
       IN IF subMatch.st # "ok" THEN subMatch
          ELSE IF Truthy(subMatch.v)
                 THEN [subMatch EXCEPT
                         !.v = ListV(<<Leaf(TokenAt(tokens, state))>> \o subMatch.v.l)]
                 ELSE [subMatch EXCEPT !.v = NullV]

DfsHelper(sts, root, state, depth, li, calls) ==
  LET call == <<root.rule, root.origin, state, depth, li>>
      e == ElemAt(grammar[root.rule], depth)
      tok == TokenAt(tokens, state)
  IN IF call \in calls THEN Ret("RangeError", UndefinedV, li, <<>>, FALSE)
     ELSE IF state = root.origin /\ depth = Len(grammar[root.rule].rhs)
       THEN Ret("ok", ListV(<<>>), li, <<>>, FALSE)
     ELSE IF e.kind = "RegExp"
       THEN LET t == RegTest(e.re, li, tok)
            IN DfsTerminal(sts, root, state, depth, li, calls \cup {call}, t.ok, t.li)
     ELSE IF e.kind = "string"
       THEN DfsTerminal(sts, root, state, depth, li, calls \cup {call},
                        ~tok.undef /\ e.str = tok.str, li)
     ELSE IF state \notin DOMAIN sts
       THEN Ret("TypeError", UndefinedV, li, <<>>, FALSE)
     ELSE LET cands == Candidates(sts, root, state, depth)
              m == MapCandidates(sts, root, state, depth, cands, 1, <<>>,
                                 Ret("ok", UndefinedV, li, <<>>, FALSE),
                                 calls \cup {call})
          IN IF m.st # "ok" THEN m
             ELSE LET edges == Edges(m.v.l)
                      kept == PickEdge(edges)
                  IN Ret("ok", kept, m.li,
                         Append(m.log, [root |-> root, state |-> state, depth |-> depth,
                                        cands |-> cands, outs |-> m.v.l, kept |-> kept]),
                         m.amb \/ Differ(edges))

\* the .map() over the candidates, from candidate k on; outs holds the lists
\* (or null) of the candidates before k, acc the lastIndex, log and amb so far
MapCandidates(sts, root, state, depth, cands, k, outs, acc, calls) ==
  IF k > Len(cands) THEN [acc EXCEPT !.v = ListV(outs)]
  ELSE LET item == cands[k]
           subMatch == DfsHelper(sts, root, item.origin, depth + 1, acc.li, calls)
       IN IF subMatch.st # "ok" THEN subMatch
          ELSE IF ~Truthy(subMatch.v)
            THEN MapCandidates(sts, root, state, depth, cands, k + 1,
                               Append(outs, NullV),
                               Ret("ok", UndefinedV, subMatch.li, acc.log \o subMatch.log,
                                   acc.amb \/ subMatch.amb),
                               calls)
          ELSE LET kids == DfsHelper(sts, item, state, 0, subMatch.li, calls)
               IN IF kids.st # "ok" THEN kids
                  ELSE MapCandidates(sts, root, state, depth, cands, k + 1,
                         Append(outs, ListV(<<Node(item.rule, kids.v)>> \o subMatch.v.l)),
                         Ret("ok", UndefinedV, kids.li,
                             acc.log \o subMatch.log \o kids.log,
                             acc.amb \/ subMatch.amb \/ kids.amb),
                         calls)

(***************************************************************************)
(* dfs(states, tokens): the root is the item of states[0] with the largest *)
(* origin (the first of them); SyntaxError when there is none or when it   *)
(* does not end at tokens.length.                                          *)
(***************************************************************************)
\* faulty variant of ReduceRoot: the comparison turned round
RECURSIVE ReduceRootSmallest(_, _, _)
ReduceRootSmallest(st, k, best) ==
  IF k > Len(st) THEN best
  ELSE ReduceRootSmallest(st, k + 1,
                          IF best = 0 \/ st[k].origin < st[best].origin THEN k ELSE best)

\* faulty variant of ReduceRoot: >= for >, the last of the largest
RECURSIVE ReduceRootLast(_, _, _)
ReduceRootLast(st, k, best) ==
  IF k > Len(st) THEN best
  ELSE ReduceRootLast(st, k + 1,
                      IF best = 0 \/ st[k].origin >= st[best].origin THEN k ELSE best)

RECURSIVE ReduceRoot(_, _, _)
ReduceRoot(st, k, best) ==
  IF k > Len(st) THEN best
  ELSE ReduceRoot(st, k + 1,
                  IF best = 0 \/ st[k].origin > st[best].origin THEN k ELSE best)

\* the index in states[0] of the root, 0 for null
Root(sts) == ReduceRoot(sts[0], 1, 0)

Dfs ==
  /\ pc = "dfs"
  /\ LET best == Root(chart)
     IN IF best = 0
          THEN /\ outcome' = [NoOutcome EXCEPT !.kind = "SyntaxError",
                                               !.near = TokenAt(tokens, 0)]
               /\ UNCHANGED lastIndex
          ELSE LET root == chart[0][best]
               IN IF root.origin # n
                    THEN /\ outcome' = [NoOutcome EXCEPT
                                          !.kind = "SyntaxError",
                                          !.near = TokenAt(tokens, root.origin)]
                         /\ UNCHANGED lastIndex
                    ELSE LET h == DfsHelper(chart, root, 0, 0, lastIndex, {})
                         IN /\ outcome' =
                                 IF h.st # "ok" THEN [NoOutcome EXCEPT !.kind = h.st]
                                 ELSE [NoOutcome EXCEPT
                                         !.kind = "tree",
                                         !.tree = Node(root.rule, h.v),
                                         !.log = h.log,
                                         !.ambiguous = h.amb]
                            /\ lastIndex' = h.li
  /\ pc' = "done"
  /\ UNCHANGED <<grammar, tokens, states, i, j, chart, history, cvars>>

(***************************************************************************)
(* parse() returns or throws; the caller may call it again with the same   *)
(* sentence and the same grammar (the Rule and RegExp objects live on).    *)
(***************************************************************************)
Result(o) == [kind |-> o.kind, tree |-> o.tree, near |-> o.near]

Return ==
  /\ pc = "done"
  /\ history' = Append(history, Result(outcome))
  /\ pc' = IF Len(history) + 1 < MaxRuns THEN "call" ELSE "idle"
  /\ UNCHANGED <<grammar, tokens, states, i, j, lastIndex, chart, outcome, cvars>>

Next ==
  \/ Seed
  \/ Loop
  \/ Predict
  \/ Scan
  \/ Complete
  \/ Transform
  \/ Dfs
  \/ Return

Spec == Init /\ [][Next]_vars

(***************************************************************************)
(* Rules: the caller constructs a Rule from Syms and strings, or           *)
(* constructs one and evaluates it (lib/rules.js).                         *)
(***************************************************************************)
BuildInit ==
  /\ grammar = Arith
  /\ tokens = <<>>
  /\ states = EmptyStates(0)
  /\ chart = EmptyStates(0)
  /\ i = 0
  /\ j = 0
  /\ pc = "idle"
  /\ lastIndex = [k \in 1..Len(RegExps) |-> 0]
  /\ outcome = NoOutcome
  /\ history = <<>>
  /\ cfg = <<>>
  /\ symHeap = UserSyms
  /\ last = NoCall
  /\ ruleCalls = <<>>

\* the Syms the caller holds
CallerSyms == {SymObj(k, UserSyms[k]) : k \in 1..Len(UserSyms)}

\* the arrays given as rhs
RhsArrays ==
  {Value("array", l) : l \in SeqsUpTo(CallerSyms \cup {StringObj(<<"a">>)}, MaxRhs)}

\* the values given as rhs: none, null, or an array of Syms and strings
RhsValues == {Value("undefined", <<>>), Value("null", <<>>)} \cup RhsArrays

\* new Rule(lhs, rhs, valuator)
NewRule ==
  /\ \E lhs \in CallerSyms, rhs \in RhsValues, valuator \in BOOLEAN :
       LET r == RuleObject(lhs, rhs, valuator)
       IN last' = [NoCall EXCEPT !.op = "Rule", !.lhs = lhs, !.rhs = rhs,
                                 !.valuator = valuator, !.st = r.st,
                                 !.rule = r.rule]
  /\ UNCHANGED <<cfg, symHeap, ruleCalls, pvars>>

\* the values given to evaluate
EvaluateArgs ==
  {Value("array", <<>>), Value("array", <<1, 2>>), Value("number", <<>>),
   Value("string", <<>>), Value("undefined", <<>>), Value("null", <<>>),
   Value("object", <<>>)}

\* rule.evaluate(values), on the Rule just constructed
CallEvaluate ==
  /\ last.op = "Rule"
  /\ last.st = "ok"
  /\ \E values \in EvaluateArgs :
       LET r == Evaluate(last.rule, values)
       IN last' = [NoCall EXCEPT !.op = "evaluate", !.rule = last.rule,
                                 !.values = values, !.st = r.st, !.val = r.val]
  /\ UNCHANGED <<cfg, symHeap, ruleCalls, pvars>>

RuleNext ==
  \/ NewRule
  \/ CallEvaluate

RuleSpec == BuildInit /\ [][RuleNext]_vars

(***************************************************************************)
(* Grammars: the caller adds rules to a CFG, as Rule objects or as         *)
(* strings, and asks for its symbols, in any order (lib/cfg.js).           *)
(***************************************************************************)
\* the Rules the caller can construct
CallerRules ==
  {RuleObject(lhs, rhs, valuator).rule :
     lhs \in CallerSyms, rhs \in {v \in RhsArrays : Len(v.l) > 0},
     valuator \in BOOLEAN}

\* the arguments given to cfg.rule
RuleArgs ==
  {RuleArg("string", text, NoRule) : text \in SeqsUpTo(Lexemes, MaxWords)}
    \cup {RuleArg("Rule", <<>>, r) : r \in {c \in CallerRules : ~c.valuator}}
    \cup {RuleArg("number", <<>>, NoRule)}

\* cfg.rule(theRule)
CallRule ==
  /\ Len(ruleCalls) < MaxCalls
  /\ \E theRule \in RuleArgs :
       LET r == CfgRule(cfg, symHeap, theRule)
       IN /\ cfg' = r.g
          /\ symHeap' = r.heap
          /\ ruleCalls' = Append(ruleCalls, [kind |-> theRule.kind,
                                              pushed |-> r.g # cfg])
          /\ last' = [NoCall EXCEPT !.op = "rule", !.arg = theRule, !.before = cfg,
                                    !.heapBefore = Len(symHeap), !.st = r.st,
                                    !.rule = r.ret]
  /\ UNCHANGED pvars

\* cfg.getSymbols()
CallGetSymbols ==
  /\ LET r == GetSymbols(cfg)
     IN last' = [NoCall EXCEPT !.op = "getSymbols", !.before = cfg, !.st = r.st,
                               !.map = r.map]
  /\ UNCHANGED <<cfg, symHeap, ruleCalls, pvars>>

CfgNext ==
  \/ CallRule
  \/ CallGetSymbols

CfgSpec == BuildInit /\ [][CfgNext]_vars

(***************************************************************************)
(* The default tokenizer (lib/tokenizer.js).  A sentence is a sequence of  *)
(* characters.  The terminals of the grammar, strings escaped to match     *)
(* themselves and the source of each RegExp (its flags are dropped), are   *)
(* joined into one alternation inside a capturing group, and the sentence  *)
(* is split by it: String.prototype.split puts, after the text before each *)
(* match, what every capturing group of the pattern captured, undefined    *)
(* for a group that took no part in the match.                             *)
(***************************************************************************)
MaxSent == 4
Space == " "
Chars == {"1", "2", "+", "-", Space, "x"}

\* sums of signed numbers
Signed ==
  << Rule("sum", <<Sym("sum"), Str(TPlus), Sym("num")>>),
     Rule("sum", <<Sym("num")>>),
     Rule("num", <<Re(6)>>) >>

TokGrammars == {Arith, LeftRec, Signed}

\* terms: the strings and RegExps of the rules, in the order of the grammar
RECURSIVE Terms(_, _)
Terms(g, k) ==
  IF k > Len(g) THEN <<>>
  ELSE SelectSeq(g[k].rhs, LAMBDA e : e.kind \in {"string", "RegExp"}) \o Terms(g, k + 1)

\* an element of the array split returns: a string or undefined
Piece(t) == [undef |-> FALSE, str |-> t]

\* the capturing groups inside the source of a terminal
GroupsOf(e) == IF e.kind = "RegExp" /\ RegExps[e.re].group # {} THEN 1 ELSE 0

\* one alternative of delims tried at the p-th character of s: whether it
\* matches, the last character matched, what its own groups captured
MatchAt(e, s, p) ==
  IF e.kind = "string"
    THEN [ok |-> p + Len(e.str) - 1 <= Len(s) /\ SubSeq(s, p, p + Len(e.str) - 1) = e.str,
          end |-> p + Len(e.str) - 1, caps |-> <<>>]
    ELSE LET re == RegExps[e.re]
             run(q) == IF re.plus THEN RunEnd(s, q, re.cls) ELSE q
         IN IF re.group # {} /\ p + 1 <= Len(s) /\ s[p] \in re.group /\ s[p + 1] \in re.cls
              THEN [ok |-> TRUE, end |-> run(p + 1), caps |-> <<Piece(<<s[p]>>)>>]
              ELSE IF p <= Len(s) /\ s[p] \in re.cls
                     THEN [ok |-> TRUE, end |-> run(p),
                           caps |-> [k \in 1..GroupsOf(e) |-> NoToken]]
                     ELSE [ok |-> FALSE, end |-> 0,
                           caps |-> [k \in 1..GroupsOf(e) |-> NoToken]]

\* what the groups of the alternatives k.. captured when alternative m matched
RECURSIVE Captures(_, _, _, _, _)
Captures(terms, k, m, s, p) ==
  IF k > Len(terms) THEN <<>>
  ELSE (IF k = m THEN MatchAt(terms[k], s, p).caps
        ELSE [q \in 1..GroupsOf(terms[k]) |-> NoToken])
       \o Captures(terms, k + 1, m, s, p)

\* delims = RegExp('(' + tokens.join('|') + ')') tried at the p-th character:
\* the first alternative that matches there; without terminals the pattern
\* is /()/, which matches the empty string
DelimsAt(terms, s, p) ==
  IF terms = <<>>
    THEN [ok |-> TRUE, end |-> p - 1, caps |-> <<Piece(<<>>)>>]
    ELSE LET hits == {k \in 1..Len(terms) : MatchAt(terms[k], s, p).ok}
         IN IF hits = {}
              THEN [ok |-> FALSE, end |-> 0, caps |-> <<>>]
              ELSE LET m == Min(hits)
                       e == MatchAt(terms[m], s, p).end
                   IN [ok |-> TRUE, end |-> e,
                       caps |-> <<Piece(SubSeq(s, p, e))>> \o Captures(terms, 1, m, s, p)]

\* sent.split(delims): p is where the piece being read starts and q where a
\* match is tried, both counted from 0
RECURSIVE SplitFrom(_, _, _, _)
SplitFrom(s, terms, p, q) ==
  IF q >= Len(s) THEN <<Piece(SubSeq(s, p + 1, Len(s)))>>
  ELSE LET z == DelimsAt(terms, s, q + 1)
       IN IF ~z.ok \/ z.end = p
            THEN SplitFrom(s, terms, p, q + 1)
            ELSE <<Piece(SubSeq(s, p + 1, q))>> \o z.caps \o SplitFrom(s, terms, z.end, z.end)

Split(s, terms) ==
  IF s = <<>>
    THEN IF DelimsAt(terms, s, 1).ok THEN <<>> ELSE <<Piece(s)>>
    ELSE SplitFrom(s, terms, 0, 0)

\* item.trim()
RECURSIVE Trim(_)
Trim(t) ==
  IF t = <<>> THEN t
  ELSE IF t[1] = Space THEN Trim(Tail(t))
  ELSE IF t[Len(t)] = Space THEN Trim(SubSeq(t, 1, Len(t) - 1))
  ELSE t

\* tokenize(sent, grammar): trim() of undefined throws a TypeError
Tokenize(sent, g) ==
  LET pieces == Split(sent, Terms(g, 1))
  IN IF \E k \in 1..Len(pieces) : pieces[k].undef
       THEN [st |-> "TypeError", toks |-> <<>>]
       ELSE [st |-> "ok",
             toks |-> SelectSeq([k \in 1..Len(pieces) |-> Trim(pieces[k].str)],
                                LAMBDA t : t # <<>>)]

TokInit ==
  /\ grammar \in TokGrammars
  /\ tokens = <<>>
  /\ states = EmptyStates(0)
  /\ chart = EmptyStates(0)
  /\ i = 0
  /\ j = 0
  /\ pc = "idle"
  /\ lastIndex = [k \in 1..Len(RegExps) |-> 0]
  /\ outcome = NoOutcome
  /\ history = <<>>
  /\ cfg = <<>>
  /\ symHeap = UserSyms
  /\ last = NoCall
  /\ ruleCalls = <<>>

\* tokenize(sent, grammar); the function keeps nothing between calls, so one
\* call in a behaviour shows all it can return
CallTokenize ==
  /\ last.op = "none"
  /\ \E sent \in SeqsUpTo(Chars, MaxSent) :
       LET r == Tokenize(sent, grammar)
       IN /\ tokens' = r.toks
          /\ last' = [NoCall EXCEPT !.op = "tokenize",
                                    !.arg = RuleArg("string", sent, NoRule),
                                    !.st = r.st]
  /\ UNCHANGED <<grammar, states, i, j, pc, lastIndex, chart, outcome, history,
                 cfg, symHeap, ruleCalls>>

TokNext == CallTokenize

TokSpec == TokInit /\ [][TokNext]_vars

(***************************************************************************)
(* What the claims speak of.                                               *)
(***************************************************************************)
ZeroIndex == [k \in 1..Len(RegExps) |-> 0]

\* the match predicate of a terminal on one token
Matches(e, tok) ==
  \/ e.kind = "string" /\ ~tok.undef /\ e.str = tok.str
  \/ e.kind = "RegExp" /\ RegTest(e.re, ZeroIndex, tok).ok

\* Derivations, defined without the chart: <<r, a, b>> is in Derivable when
\* rule r derives tokens[a..b-1].  D is the set of triples known so far.
RECURSIVE RestDerives(_, _, _, _, _)
RestDerives(D, r, d, a, b) ==
  LET e == ElemAt(grammar[r], d)
  IN IF d = Len(grammar[r].rhs) THEN a = b
     ELSE IF e.kind = "Sym"
       THEN \E m \in a..b : \E r2 \in 1..Len(grammar) :
              /\ grammar[r2].lhs = e.sym
              /\ <<r2, a, m>> \in D
              /\ RestDerives(D, r, d + 1, m, b)
       ELSE /\ a < b
            /\ Matches(e, TokenAt(tokens, a))
            /\ RestDerives(D, r, d + 1, a + 1, b)

Spans == {t \in (1..Len(grammar)) \X (0..n) \X (0..n) : t[2] <= t[3]}

RECURSIVE DerivableFrom(_)
DerivableFrom(D) ==
  LET D2 == {t \in Spans : RestDerives(D, t[1], 0, t[2], t[3])}
  IN IF D2 = D THEN D ELSE DerivableFrom(D2)

Derivable == DerivableFrom({})

InLanguage == \E r \in 1..Len(grammar) : <<r, 0, n>> \in Derivable

Returned == pc = "done" /\ outcome.kind = "tree"

\* dfs() was entered: earley() returned the transformed chart
Extracted == pc = "done" /\ DOMAIN chart # {}

\* the string leaves of a tree, from left to right
RECURSIVE Leaves(_)
RECURSIVE LeavesOfList(_, _)
Leaves(t) ==
  IF IsLeaf(t) THEN <<t.tok>>
  ELSE IF t.children.k # "list" THEN <<>>
  ELSE LeavesOfList(t.children.l, 1)

LeavesOfList(l, k) ==
  IF k > Len(l) THEN <<>> ELSE Leaves(l[k]) \o LeavesOfList(l, k + 1)

TokenValues == [k \in 1..n |-> TokenAt(tokens, k - 1)]

\* the nodes of a tree
RECURSIVE Nodes(_)
Nodes(t) ==
  IF IsLeaf(t) THEN {}
  ELSE {t} \cup (IF t.children.k # "list" THEN {}
                 ELSE UNION {Nodes(t.children.l[k]) : k \in 1..Len(t.children.l)})

\* a node whose children fit its rule, position by position
NodeFits(t) ==
  /\ t.children.k = "list"
  /\ Len(t.children.l) = Len(grammar[t.item].rhs)
  /\ \A k \in 1..Len(t.children.l) :
       LET e == grammar[t.item].rhs[k]
           c == t.children.l[k]
       IN IF e.kind = "Sym"
            THEN ~IsLeaf(c) /\ grammar[c.item].lhs = e.sym
            ELSE IsLeaf(c) /\ Matches(e, c.tok)

\* the candidates of a log record that succeeded (their positions)
Succeeded(rec) == {k \in 1..Len(rec.outs) : Truthy(rec.outs[k])}

LogRecords == {outcome.log[k] : k \in 1..Len(outcome.log)}

\* the end positions of the complete items of state 0 of the chart
RootEnds == {chart[0][k].origin : k \in 1..Len(chart[0])}

Recognizing == pc \in {"loop", "predict", "scan", "complete", "toobig"}

\* the place of the recognizer in its loops: (i, j, step), in lexical order
Phase == CASE pc = "predict" -> 1 [] pc = "scan" -> 2 [] pc = "complete" -> 3
           [] OTHER -> 0

Rank == (i * (MaxItems + 2) + j) * 4 + Phase

(***************************************************************************)
(* C1: parse returns a tree exactly when some rule of the grammar derives  *)
(* the whole token sequence, and raises a SyntaxError in every other case. *)
(***************************************************************************)
C1_TreeIffDerivation ==
  pc = "done" =>
    /\ (outcome.kind = "tree") <=> InLanguage
    /\ outcome.kind \in {"tree", "SyntaxError"}

(***************************************************************************)
(* C2: the leaves of a returned tree, read from left to right, are the     *)
(* tokens, in order, none skipped or repeated.                             *)
(***************************************************************************)
C2_YieldIsTokens == Returned => Leaves(outcome.tree) = TokenValues

(***************************************************************************)
(* C3: every node of a returned tree has one child per element of its      *)
(* rule: a node of a rule with that lhs for a Sym, and for a terminal the  *)
(* token, which the terminal matches.                                      *)
(***************************************************************************)
C3_ChildrenFitRule == Returned => \A t \in Nodes(outcome.tree) : NodeFits(t)

(***************************************************************************)
(* C4: dfs raises a SyntaxError exactly when state 0 of the chart is empty *)
(* (the message names tokens[0]) or the largest end position k in state 0  *)
(* is not n (the message names tokens[k]).                                 *)
(***************************************************************************)
C4_SyntaxErrorCases ==
  Extracted =>
    /\ (outcome.kind = "SyntaxError") <=> (RootEnds = {} \/ Max(RootEnds) # n)
    /\ RootEnds = {} => outcome.near = TokenAt(tokens, 0)
    /\ (RootEnds # {} /\ Max(RootEnds) # n) =>
         /\ Max(RootEnds) < n
         /\ outcome.near = TokenAt(tokens, Max(RootEnds))

C4_Witness ==
  /\ Extracted
  /\ outcome.kind = "SyntaxError"
  /\ RootEnds # {}
  /\ Max(RootEnds) = 1
  /\ n = 3
  /\ outcome.near = TokenAt(tokens, 1)

(***************************************************************************)
(* C5: earley returns a chart and never raises, whatever the tokens and    *)
(* the grammar: nothing is scanned at i = n.                               *)
(***************************************************************************)
C5_EarleyNeverRaises == pc = "done" => DOMAIN chart # {}

(***************************************************************************)
(* C6: the recognizer stops on every input, self-left-recursive rules      *)
(* included: no state grows without end (none exceeds MaxItems), and every *)
(* step of the loops over i and j raises a rank that is bounded, so the    *)
(* loops are left.                                                         *)
(***************************************************************************)
C6_RecognizerTerminates ==
  [][Recognizing =>
       /\ pc' # "toobig"
       /\ i <= n + 1
       /\ j <= MaxItems
       /\ Recognizing' => Rank' > Rank]_vars

C6_Witness ==
  /\ grammar = LeftRec
  /\ pc = "transform"
  /\ n >= 2
  /\ \E k \in 1..Len(states[n]) :
       states[n][k].rule = 1 /\ states[n][k].position = 2 /\ states[n][k].origin = 0

(***************************************************************************)
(* C7: tree extraction ends for every chart of the recognizer, unit        *)
(* productions and cycles of them included: dfsHelper never recurses       *)
(* without end.                                                            *)
(***************************************************************************)
C7_ExtractionTerminates == pc = "done" => outcome.kind # "RangeError"

(***************************************************************************)
(* C8: parse called again on the same tokens and the same grammar returns  *)
(* the same tree or raises the same error.                                 *)
(***************************************************************************)
C8_SameResultEveryRun ==
  \A a, b \in 1..Len(history) :
     history[a].kind = history[b].kind /\ history[a].tree = history[b].tree

(***************************************************************************)
(* C9: where candidates of S'[start] succeed at a non-terminal position,   *)
(* one subtree is kept, the one of the first successful candidate in the   *)
(* order of S'[start]; every node of the returned tree is a kept one.      *)
(***************************************************************************)
C9_FirstSuccessfulKept ==
  Returned =>
    /\ \A rec \in LogRecords :
         Succeeded(rec) # {} =>
           /\ rec.kept = rec.outs[Min(Succeeded(rec))]
           /\ rec.kept.l[1].item = rec.cands[Min(Succeeded(rec))].rule
    /\ \A t \in Nodes(outcome.tree) \ {outcome.tree} :
         \E rec \in LogRecords : Succeeded(rec) # {} /\ rec.kept.l[1] = t

C9_Witness ==
  /\ Returned
  /\ \E rec \in LogRecords :
       /\ Cardinality(Succeeded(rec)) > 1
       /\ \E k \in Succeeded(rec) : rec.outs[k] # rec.kept
       /\ rec.kept.l[1] \in Nodes(outcome.tree)

(***************************************************************************)
(* C10 (as claimed): among the rules of one lhs that succeed at a start    *)
(* position, the extractor uses the one added to the grammar first.        *)
(***************************************************************************)
C10_EarliestRuleUsed ==
  Returned =>
    \A rec \in LogRecords :
       (Succeeded(rec) # {} /\ rec.kept.l[1] \in Nodes(outcome.tree)) =>
          rec.kept.l[1].item = Min({rec.cands[k].rule : k \in Succeeded(rec)})

(***************************************************************************)
(* C10 (amended): the extractor uses the first successful candidate in the *)
(* order of S'[start], which is the order of end positions: no successful  *)
(* candidate ends before the one that is used, whatever the rules' places  *)
(* in the grammar.                                                         *)
(***************************************************************************)
C10_ShortestSpanUsed ==
  Returned =>
    \A rec \in LogRecords :
       Succeeded(rec) # {} =>
         LET first == Min(Succeeded(rec))
         IN /\ rec.kept.l[1].item = rec.cands[first].rule
            /\ \A k \in Succeeded(rec) : rec.cands[first].origin <= rec.cands[k].origin

C10_Witness ==
  /\ Returned
  /\ \E rec \in LogRecords :
       /\ Succeeded(rec) # {}
       /\ rec.kept.l[1] \in Nodes(outcome.tree)
       /\ \E k \in Succeeded(rec) :
            /\ rec.cands[k].rule < rec.kept.l[1].item
            /\ rec.cands[k].origin > rec.cands[Min(Succeeded(rec))].origin

(***************************************************************************)
(* C11: no node of a returned tree, the root included, has the no-match    *)
(* value (null or undefined) as its children.                              *)
(***************************************************************************)
C11_NoNullChildren ==
  Returned => \A t \in Nodes(outcome.tree) : t.children.k = "list"

\* a terminal matches the whole token: the string equals it; every
\* character of it belongs to the pattern
FullMatch(e, tok) ==
  /\ ~tok.undef
  /\ \/ e.kind = "string" /\ e.str = tok.str
     \/ /\ e.kind = "RegExp"
        /\ Len(tok.str) >= 1
        /\ RegExps[e.re].plus \/ Len(tok.str) = 1
        /\ \A q \in 1..Len(tok.str) : tok.str[q] \in RegExps[e.re].cls

IsTerminal(e) == e.kind \in {"string", "RegExp"}

\* the items of S[k] whose dot stands behind a terminal were pushed by scan
\* at k - 1
ScannedItems(k) ==
  {m \in 1..Len(states[k]) :
     /\ states[k][m].position >= 1
     /\ IsTerminal(ElemAt(grammar[states[k][m].rule], states[k][m].position - 1))}

\* the (terminal, token) pairs of the nodes of a tree
TerminalLeaves(t) ==
  UNION {{<<grammar[u.item].rhs[k], u.children.l[k].tok>> :
            k \in {d \in 1..Len(grammar[u.item].rhs) :
                     /\ u.children.k = "list"
                     /\ d <= Len(u.children.l)
                     /\ IsLeaf(u.children.l[d])
                     /\ IsTerminal(grammar[u.item].rhs[d])}} :
         u \in Nodes(t)}

(***************************************************************************)
(* C12: scan advances an item over a terminal, and the extractor takes a   *)
(* token as the child of a terminal, only when the whole token matches:    *)
(* a token that merely contains a match of the pattern is not accepted.    *)
(***************************************************************************)
C12_WholeTokenMatches ==
  /\ \A k \in DOMAIN states : \A m \in (IF k >= 1 THEN ScannedItems(k) ELSE {}) :
        FullMatch(ElemAt(grammar[states[k][m].rule], states[k][m].position - 1),
                  TokenAt(tokens, k - 1))
  /\ Returned => \A p \in TerminalLeaves(outcome.tree) : FullMatch(p[1], p[2])

(***************************************************************************)
(* C13: at every point of the recognizer's run, every item of S[k] has     *)
(* 0 <= origin <= k and 0 <= position <= rule.length.                      *)
(***************************************************************************)
C13_ItemsInRange ==
  \A k \in DOMAIN states : \A m \in 1..Len(states[k]) :
     /\ states[k][m].origin \in 0..k
     /\ states[k][m].position \in 0..Len(grammar[states[k][m].rule].rhs)

C13_Witness ==
  /\ pc = "transform"
  /\ n = MaxLen
  /\ \E m \in 1..Len(states[n]) :
       /\ states[n][m].origin = 0
       /\ states[n][m].position = Len(grammar[states[n][m].rule].rhs)
  /\ \E m \in 1..Len(states[n]) : states[n][m].origin = n /\ states[n][m].position = 0

(***************************************************************************)
(* C14: in the chart that earley returns, every item is complete and its   *)
(* origin field, now the end position, is at least the index of the state  *)
(* that holds it and at most n.                                            *)
(***************************************************************************)
C14_ChartCompleteAndForward ==
  \A s \in DOMAIN chart : \A m \in 1..Len(chart[s]) :
     /\ chart[s][m].position = Len(grammar[chart[s][m].rule].rhs)
     /\ chart[s][m].origin >= s
     /\ chart[s][m].origin <= n

C14_Witness ==
  /\ pc = "dfs"
  /\ n = MaxLen
  /\ \E m \in 1..Len(chart[0]) : chart[0][m].origin = n
  /\ \E m \in 1..Len(chart[1]) : chart[1][m].origin = 2
  /\ \E k \in DOMAIN states : \E m \in 1..Len(states[k]) :
       states[k][m].position < Len(grammar[states[k][m].rule].rhs)

(***************************************************************************)
(* C15: a parse leaves the grammar as it was: the rules, their order,      *)
(* their lhs and their rhs elements (the state of the RegExp objects       *)
(* included) are the same after every step of parse, earley and dfs.       *)
(***************************************************************************)
C15_GrammarUnchanged ==
  [][grammar' = grammar /\ lastIndex' = lastIndex]_vars

(***************************************************************************)
(* C16: Rule(lhs, rhs, valuator) fails and creates no rule when rhs is     *)
(* missing or empty; for a non-empty rhs it returns a rule with that lhs,  *)
(* length rhs.length and rule[k] = rhs[k] for every k.                     *)
(***************************************************************************)
C16_RuleConstructor ==
  last.op = "Rule" =>
    IF last.rhs.kind # "array" \/ Len(last.rhs.l) = 0
      THEN last.st = "Error" /\ last.rule = NoRule
      ELSE /\ last.st = "ok"
           /\ last.rule.lhs = last.lhs
           /\ Len(last.rule.rhs) = Len(last.rhs.l)
           /\ \A k \in 1..Len(last.rhs.l) : last.rule.rhs[k] = last.rhs.l[k]

C16_Witness ==
  /\ last.op = "Rule"
  /\ last.st = "ok"
  /\ Len(last.rhs.l) = 2
  /\ last.rhs.l[1] # last.rhs.l[2]
  /\ last.rule.rhs = last.rhs.l

(***************************************************************************)
(* C17: evaluate(values) hands the elements of values to the valuator in   *)
(* order and returns its result, returns null for a rule without a         *)
(* valuator, and fails whenever values is not an array, with or without a  *)
(* valuator.                                                               *)
(***************************************************************************)
C17_EvaluateContract ==
  last.op = "evaluate" =>
    IF last.values.kind = "array"
      THEN /\ last.st = "ok"
           /\ last.val = IF last.rule.valuator
                           THEN Value("arguments", last.values.l)
                           ELSE Value("null", <<>>)
      ELSE last.st # "ok"

\* the Syms that occur in a grammar, as lhs or as rhs element
SymsOf(g) == {e \in {Flatten(g, 1)[k] : k \in 1..Len(Flatten(g, 1))} : e.kind = "Sym"}

Duplicates(g) == \E a, b \in SymsOf(g) : a.name = b.name /\ a.id # b.id

(***************************************************************************)
(* C18: getSymbols() fails exactly when two distinct Syms of one name      *)
(* occur in the grammar; otherwise it returns a mapping whose keys are the *)
(* names of the Syms that occur, each mapped to its Sym.                   *)
(***************************************************************************)
C18_GetSymbolsContract ==
  last.op = "getSymbols" =>
    IF Duplicates(cfg) THEN last.st = "Error"
    ELSE /\ last.st = "ok"
         /\ DOMAIN last.map = {e.name : e \in SymsOf(cfg)}
         /\ \A e \in SymsOf(cfg) : last.map[e.name] = e

\* every pushed rule came from a rule string
StringsOnly ==
  \A k \in 1..Len(ruleCalls) : ruleCalls[k].pushed => ruleCalls[k].kind = "string"

\* the (name, element) pairs of the rule a rule string produced: the lhs,
\* and the rhs words that are not terminals
Resolved(text, rule) ==
  LET sides == SplitArrow(text, 1, <<>>)
  IN {<<sides[1], rule.lhs>>}
       \cup {<<<<sides[2][k]>>, rule.rhs[k]>> :
               k \in {d \in 1..Len(sides[2]) :
                        ~REGEX_REGEX(sides[2][d]) /\ ~STR_REGEX(sides[2][d])}}

(***************************************************************************)
(* C19: in the rule a rule string produces, a name that occurs in the      *)
(* grammar is that existing Sym, a name that does not occur is a fresh     *)
(* Sym, the same one for every occurrence of the name; and getSymbols()    *)
(* never fails on a grammar built only from rule strings.                  *)
(***************************************************************************)
C19_NamesDenoteOneSym ==
  /\ (last.op = "rule" /\ last.arg.kind = "string" /\ last.st = "ok") =>
       /\ Len(last.rule.rhs) = Len(SplitArrow(last.arg.text, 1, <<>>)[2])
       /\ \A p \in Resolved(last.arg.text, last.rule) :
            /\ p[2].kind = "Sym"
            /\ p[2].name = p[1]
            /\ IF \E e \in SymsOf(last.before) : e.name = p[1]
                 THEN p[2] \in SymsOf(last.before)
                 ELSE p[2].id > last.heapBefore
            /\ \A q \in Resolved(last.arg.text, last.rule) :
                 q[1] = p[1] => q[2] = p[2]
  /\ StringsOnly => GetSymbols(cfg).st = "ok"

(***************************************************************************)
(* C20: rule(<string>) fails with a SyntaxError and leaves the grammar as  *)
(* it was when the string has no '->', when the text left of it is empty   *)
(* and when the text right of it is empty; in every other case one rule is *)
(* appended at the end of the grammar and returned.                        *)
(***************************************************************************)
C20_RuleStringContract ==
  (last.op = "rule" /\ last.arg.kind = "string") =>
    LET sides == SplitArrow(last.arg.text, 1, <<>>)
    IN IF Len(sides) < 2 \/ sides[1] = <<>> \/ sides[2] = <<>>
         THEN last.st = "SyntaxError" /\ cfg = last.before
         ELSE /\ last.st = "ok"
              /\ last.rule # NoRule
              /\ cfg = Append(last.before, last.rule)

\* how many items of a state belong to a rule, and how many equal an item
CountRule(st, r) == Cardinality({m \in 1..Len(st) : st[m].rule = r})
CountItem(st, it) == Cardinality({m \in 1..Len(st) : st[m] = it})

(***************************************************************************)
(* C22: predict appends (r', 0, i) to S[i] only for a rule r' of which     *)
(* S[i] holds no item at that moment, whatever the dot position of the     *)
(* predicting item: no rule present in S[i] is appended again.             *)
(***************************************************************************)
C22_PredictOnlyAbsentRules ==
  [][pc = "predict" =>
       \A r \in 1..Len(grammar) :
          CountRule(states'[i], r) > CountRule(states[i], r) =>
             /\ CountRule(states[i], r) = 0
             /\ CountRule(states'[i], r) = 1]_vars

NoDuplicates(sts) ==
  \A k \in DOMAIN sts : \A a, b \in 1..Len(sts[k]) :
     a # b =>
       \/ sts[k][a].rule # sts[k][b].rule
       \/ sts[k][a].position # sts[k][b].position
       \/ sts[k][a].origin # sts[k][b].origin

(***************************************************************************)
(* C23: every chart state is a set: no state of the recognizer, at any     *)
(* point of its run, and no state of the transformed chart holds two items *)
(* with the same rule, position and origin.                                *)
(***************************************************************************)
C23_StatesAreSets == NoDuplicates(states) /\ NoDuplicates(chart)

\* the items of a state that wait for the Sym A, with the dot moved over it
MovedOver(st, A) ==
  {[st[k] EXCEPT !.position = st[k].position + 1] :
     k \in {m \in 1..Len(st) :
              /\ ElemAt(grammar[st[m].rule], st[m].position).kind = "Sym"
              /\ ElemAt(grammar[st[m].rule], st[m].position).sym = A}}

ItemsOf(st) == {st[k] : k \in 1..Len(st)}

IsComplete(it) == it.position >= Len(grammar[it.rule].rhs)

(***************************************************************************)
(* C24: complete, run on a complete item of S[i] with origin o and lhs A,  *)
(* appends to S[i] the advanced copy of every item of S[o] that waits for  *)
(* A, except those that S[i] already holds with the same rule, position    *)
(* and origin; run on any other item it changes nothing.                   *)
(***************************************************************************)
C24_CompleteAppendsAllWaiting ==
  [][pc = "complete" =>
       LET curr == states[i][j + 1]
           old == states[i]
           new == states'[i]
           appended == {new[m] : m \in (Len(old) + 1)..Len(new)}
       IN /\ Len(new) >= Len(old)
          /\ SubSeq(new, 1, Len(old)) = old
          /\ \A k \in DOMAIN states : k # i => states'[k] = states[k]
          /\ Cardinality(appended) = Len(new) - Len(old)
          /\ appended =
               IF IsComplete(curr)
                 THEN MovedOver(states[curr.origin], grammar[curr.rule].lhs)
                        \ ItemsOf(old)
                 ELSE {}]_vars

C24_Witness ==
  /\ pc = "loop"
  /\ i \in DOMAIN states
  /\ \E a, b \in 1..Len(states[i]) :
       /\ states[i][a].rule = states[i][b].rule
       /\ states[i][a].position = states[i][b].position
       /\ states[i][a].origin # states[i][b].origin
       /\ states[i][a].position >= 1
       /\ ElemAt(grammar[states[i][a].rule], states[i][a].position - 1).kind = "Sym"
  /\ \E a, b \in 1..Len(states[i]) :
       /\ states[i][a].rule = states[i][b].rule
       /\ states[i][a].position # states[i][b].position
       /\ states[i][a].position >= 1
       /\ ElemAt(grammar[states[i][a].rule], states[i][a].position - 1).kind = "Sym"

(***************************************************************************)
(* C25: when the loop of the recognizer ends, the chart is closed under    *)
(* completion: for every complete item of S[k] with origin o and lhs A,    *)
(* S[k] holds the advanced copy of every item of S[o] that waits for A.    *)
(***************************************************************************)
C25_ClosedUnderCompletion ==
  pc = "transform" =>
    \A k \in DOMAIN states : \A c \in ItemsOf(states[k]) :
       IsComplete(c) =>
         MovedOver(states[c.origin], grammar[c.rule].lhs) \subseteq ItemsOf(states[k])

\* factor -> /\d+/, then prod -> factor, then sum -> prod, over one token
C25_Witness ==
  /\ pc = "transform"
  /\ grammar = Arith
  /\ tokens = <<T1>>
  /\ {Item(6, 1, 0), Item(4, 1, 0), Item(2, 1, 0), Item(1, 1, 0), Item(3, 1, 0)}
       \subseteq ItemsOf(states[1])

(***************************************************************************)
(* C26: the transformer loses and invents nothing: S'[o] holds the item    *)
(* (r, r.length, end = e) as many times as S[e] holds the complete item    *)
(* (r, r.length, origin = o), and S' holds nothing else.                   *)
(***************************************************************************)
C26_TransformKeepsCompleteItems ==
  DOMAIN chart # {} =>
    /\ DOMAIN chart = DOMAIN states
    /\ \A o \in DOMAIN states : \A e \in DOMAIN states : \A r \in 1..Len(grammar) :
         CountItem(chart[o], Item(r, Len(grammar[r].rhs), e))
           = CountItem(states[e], Item(r, Len(grammar[r].rhs), o))
    /\ \A o \in DOMAIN chart : \A c \in ItemsOf(chart[o]) :
         /\ c.position = Len(grammar[c.rule].rhs)
         /\ c.origin \in DOMAIN states

C26_Witness ==
  /\ pc = "dfs"
  /\ n = MaxLen
  /\ \E c \in ItemsOf(chart[1]) :
       /\ c.origin = 3
       /\ CountItem(states[3], [c EXCEPT !.origin = 1]) = CountItem(chart[1], c)
  /\ \E k \in DOMAIN states : \E c \in ItemsOf(states[k]) : ~IsComplete(c)

(***************************************************************************)
(* C27: S[0] starts with one item (r, 0, 0) per rule, in grammar order;    *)
(* the items of S[i], those appended while S[i] is processed included, are *)
(* handed one after the other to predict, scan and complete, in that       *)
(* order, once each; i advances only when no item of S[i] is left.         *)
(***************************************************************************)
C27_EveryItemProcessedOnce ==
  [][/\ pc = "call" =>
          /\ states'[0] = [r \in 1..Len(grammar) |->
                             [name |-> grammar[r].lhs, rule |-> r, position |-> 0,
                              origin |-> 0]]
          /\ \A k \in DOMAIN states' : k # 0 => states'[k] = <<>>
          /\ i' = 0 /\ j' = 0 /\ pc' = "loop"
     /\ Recognizing =>
          \A k \in DOMAIN states :
             /\ Len(states'[k]) >= Len(states[k])
             /\ SubSeq(states'[k], 1, Len(states[k])) = states[k]
     /\ (pc = "loop" /\ pc' = "predict") =>
          j < Len(states[i]) /\ i' = i /\ j' = j
     /\ pc = "predict" => pc' \in {"scan", "toobig"} /\ i' = i /\ j' = j
     /\ pc = "scan" => pc' \in {"complete", "done", "toobig"} /\ i' = i /\ j' = j
     /\ pc = "complete" => pc' \in {"loop", "toobig"} /\ i' = i /\ j' = j + 1
     /\ (pc = "loop" /\ pc' = "loop") =>
          j = Len(states[i]) /\ i' = i + 1 /\ j' = 0
     /\ (pc = "loop" /\ pc' = "transform") => i = n + 1]_vars

C27_Witness ==
  /\ pc = "loop"
  /\ i \in 1..n
  /\ j = Len(states[i])
  /\ \E m \in 1..Len(states[i]) : states[i][m].position = 0 /\ states[i][m].origin = i
  /\ \E m \in 1..Len(states[i]) :
       /\ states[i][m].position >= 1
       /\ ElemAt(grammar[states[i][m].rule], states[i][m].position - 1).kind = "Sym"

(***************************************************************************)
(* C28: a complete item of S[k] has an origin smaller than k (it spans at  *)
(* least one token); the states below i are not changed while S[i] is      *)
(* processed; in the transformed chart the end of an item is greater than  *)
(* the index of its state.                                                 *)
(***************************************************************************)
C28_CompleteItemsSpanAToken ==
  [][/\ \A k \in DOMAIN states' : \A c \in ItemsOf(states'[k]) :
          c.position >= Len(grammar[c.rule].rhs) => c.origin < k
     /\ \A o \in DOMAIN chart' : \A c \in ItemsOf(chart'[o]) : c.origin > o
     /\ Recognizing =>
          \A k \in DOMAIN states : k < i => states'[k] = states[k]]_vars

C28_Witness ==
  /\ pc = "dfs"
  /\ n = MaxLen
  /\ \E c \in ItemsOf(chart[0]) : c.origin = n
  /\ \E c \in ItemsOf(chart[n - 1]) : c.origin = n
  /\ chart[n] = <<>>
  /\ \E c \in ItemsOf(states[n]) : IsComplete(c) /\ c.origin = n - 1

\* S[k] has been processed
Processed(k) == k < i \/ (k = i /\ pc = "loop" /\ j = Len(states[k]))

SymAfterDot(it) == ElemAt(grammar[it.rule], it.position).kind = "Sym"

(***************************************************************************)
(* C29: no needed prediction is suppressed: a processed state S[k] in      *)
(* which some item has a Sym after its dot holds (r, 0, k) for every rule  *)
(* r of the grammar; and every item with position 0 in S[k] has origin k.  *)
(***************************************************************************)
C29_PredictionsComplete ==
  \A k \in DOMAIN states :
     /\ (Processed(k) /\ \E c \in ItemsOf(states[k]) : SymAfterDot(c)) =>
          \A r \in 1..Len(grammar) :
             \E c \in ItemsOf(states[k]) :
                c.rule = r /\ c.position = 0 /\ c.origin = k
     /\ \A c \in ItemsOf(states[k]) : c.position = 0 => c.origin = k

C29_Witness ==
  /\ pc = "transform"
  /\ \E k \in 1..n :
       /\ \E c \in ItemsOf(states[k]) : SymAfterDot(c) /\ c.position >= 1
       /\ \E c \in ItemsOf(states[k]) : SymAfterDot(c) /\ c.position = 0
       /\ \A r \in 1..Len(grammar) :
            \E c \in ItemsOf(states[k]) : c.rule = r /\ c.position = 0 /\ c.origin = k

\* the ends of the items of a state of the transformed chart
Ends(st) == {st[k].origin : k \in 1..Len(st)}

\* the first item of S'[0] among those with the largest end
FirstOfLargest == Min({k \in 1..Len(chart[0]) : chart[0][k].origin = Max(Ends(chart[0]))})

(***************************************************************************)
(* C30: in every state S'[p] the items are in the order of non-decreasing  *)
(* end, those of one end in the order in which they were appended to the   *)
(* recognizer's state; the root of a returned tree is the first item of    *)
(* S'[0] among those with the largest end, and the candidates of a         *)
(* non-terminal are tried shortest span first.                             *)
(***************************************************************************)
C30_ChartOrderedByEnd ==
  DOMAIN chart # {} =>
    /\ \A p \in DOMAIN chart : \A a, b \in 1..Len(chart[p]) :
         a < b => chart[p][a].origin <= chart[p][b].origin
    /\ \A p \in DOMAIN chart : \A e \in DOMAIN states :
         LET done == SelectSeq(states[e], LAMBDA it : IsComplete(it) /\ it.origin = p)
         IN SelectSeq(chart[p], LAMBDA it : it.origin = e)
              = [k \in 1..Len(done) |-> [done[k] EXCEPT !.origin = e]]
    /\ Returned =>
         /\ outcome.tree.item = chart[0][FirstOfLargest].rule
         /\ \A rec \in LogRecords : \A a, b \in 1..Len(rec.cands) :
              a < b => rec.cands[a].origin <= rec.cands[b].origin

C30_Witness ==
  /\ Returned
  /\ Cardinality({k \in 1..Len(chart[0]) : chart[0][k].origin = n}) >= 2
  /\ Cardinality(Ends(chart[0])) >= 2
  /\ \E rec \in LogRecords : Cardinality(Ends(rec.cands)) >= 2

\* the text without its spaces
Unspaced(t) == SelectSeq(t, LAMBDA c : c # Space)

RECURSIVE Joined(_, _)
Joined(toks, k) == IF k > Len(toks) THEN <<>> ELSE toks[k] \o Joined(toks, k + 1)

\* the token is an occurrence of a terminal of the grammar
IsOccurrence(t) ==
  \E k \in 1..Len(Terms(grammar, 1)) :
     LET z == MatchAt(Terms(grammar, 1)[k], t, 1) IN z.ok /\ z.end = Len(t)

\* no terminal of the grammar occurs in the token
HoldsNoOccurrence(t) ==
  \A p \in 1..Len(t) : \A k \in 1..Len(Terms(grammar, 1)) :
     ~MatchAt(Terms(grammar, 1)[k], t, p).ok

(***************************************************************************)
(* C21: tokenize(sentence, grammar) returns, in the order of the input,    *)
(* only non-empty strings without a space at either end: each occurrence   *)
(* of a terminal found by the split is a token of its own, the text        *)
(* between occurrences is trimmed and appears only when something is left  *)
(* of it, and nothing else is returned: the tokens joined are the sentence *)
(* without its spaces.                                                     *)
(***************************************************************************)
C21_TokenizeContract ==
  last.op = "tokenize" =>
    /\ last.st = "ok"
    /\ \A k \in 1..Len(tokens) :
         /\ tokens[k] # <<>>
         /\ tokens[k][1] # Space
         /\ tokens[k][Len(tokens[k])] # Space
         /\ IsOccurrence(tokens[k]) \/ HoldsNoOccurrence(tokens[k])
    /\ Unspaced(Joined(tokens, 1)) = Unspaced(last.arg.text)

====
